---- MODULE Spec2Model ----
(***************************************************************************)
(* Model of PyGeoStudio's Geometry class (src/PyGeoStudio/Geometry.py):    *)
(* the point table, the line set, the region map, the mutation operations  *)
(* and the XML reader / writer; and of the offset-layer solver             *)
(* calc_cover_layer_points of the dike examples                            *)
(* (src/examples/sigma_dikes/pgs_dike_modelbuilder.py).                    *)
(*                                                                         *)
(* Encodings.                                                              *)
(*  - A Python string that the code builds, splits or converts is a tuple  *)
(*    of one-character strings; element tags, attribute names and notes    *)
(*    are only compared as wholes and stay TLA+ strings.                   *)
(*  - A nullable Python value is None == <<>> or Some(v) == <<v>>.         *)
(*  - A float is the integer number of tenths it stands for (1.5 is 15).   *)
(*  - An ordered dict is a sequence of <<key, value>> entries.             *)
(***************************************************************************)
EXTENDS Integers, Sequences, FiniteSets, TLC

VARIABLES points, point_table, lines, mesh_id, name, regions, other_elem,
          xml_in, xml_out, copy, op, cover

vars == <<points, point_table, lines, mesh_id, name, regions, other_elem,
          xml_in, xml_out, copy, op, cover>>

(***************************************************************************)
(* Bounds of the model.                                                    *)
(***************************************************************************)
MaxPoints == 4

MaxLines == 4

MaxRegions == 2

\* segments of a polyline handed to calc_cover_layer_points
MaxSegs == 5

(***************************************************************************)
(* Python values.                                                          *)
(***************************************************************************)
None == <<>>

Some(v) == <<v>>

Range(s) == {s[i] : i \in 1..Len(s)}

DigitChars == <<"0", "1", "2", "3", "4", "5", "6", "7", "8", "9">>

DigitVal(c) == (CHOOSE d \in 1..10 : DigitChars[d] = c) - 1

RECURSIVE NatStr(_)
NatStr(n) ==
  IF n < 10 THEN <<DigitChars[n + 1]>>
  ELSE NatStr(n \div 10) \o <<DigitChars[(n % 10) + 1]>>

\* str(i) of a Python int
str(n) == IF n < 0 THEN <<"-">> \o NatStr(-n) ELSE NatStr(n)

RECURSIVE NatVal(_)
NatVal(s) ==
  IF Len(s) = 1 THEN DigitVal(s[1])
  ELSE 10 * NatVal(SubSeq(s, 1, Len(s) - 1)) + DigitVal(s[Len(s)])

\* int(s) of a decimal literal
int(s) == IF s[1] = "-" THEN -NatVal(Tail(s)) ELSE NatVal(s)

IndexOf(s, c) == CHOOSE i \in 1..Len(s) : s[i] = c /\ \A j \in 1..(i - 1) : s[j] # c

\* float(s) of a literal "d" or "d.d", as a number of tenths
float(s) ==
  IF "." \in Range(s)
  THEN LET k == IndexOf(s, ".")
           whole == SubSeq(s, 1, k - 1)
           frac == SubSeq(s, k + 1, Len(s))
       IN 10 * NatVal(whole) + (IF Len(frac) = 0 THEN 0 ELSE DigitVal(frac[1]))
  ELSE 10 * NatVal(s)

\* str(x) of a float: the shortest repr always carries a fractional part
str_float(v) == NatStr(v \div 10) \o <<".">> \o <<DigitChars[(v % 10) + 1]>>

\* sep.join(parts)
RECURSIVE join(_, _)
join(sep, parts) ==
  IF Len(parts) = 0 THEN <<>>
  ELSE IF Len(parts) = 1 THEN parts[1]
  ELSE parts[1] \o <<sep>> \o join(sep, Tail(parts))

\* s.split(sep)
RECURSIVE split(_, _)
split(s, sep) ==
  IF sep \notin Range(s) THEN <<s>>
  ELSE LET k == IndexOf(s, sep)
       IN <<SubSeq(s, 1, k - 1)>> \o split(SubSeq(s, k + 1, Len(s)), sep)

\* f"{v}" of a nullable string
fmt(v) == IF v = None THEN <<"N", "o", "n", "e">> ELSE v[1]

PointLabel(i) == <<"P", "o", "i", "n", "t", "-">> \o str(i)

RegionLabel(n) == <<"R", "e", "g", "i", "o", "n", "-">> \o str(n)

\* the reader keying a region the way addRegions does
RegionsLabel_clash(id_) == <<"R", "e", "g", "i", "o", "n", "-">> \o fmt(id_)

RegionsLabel(id_) == <<"R", "e", "g", "i", "o", "n", "s", "-">> \o fmt(id_)

(***************************************************************************)
(* The Geometry object.                                                    *)
(***************************************************************************)
self == [points |-> points, point_table |-> point_table, lines |-> lines,
         mesh_id |-> mesh_id, name |-> name, regions |-> regions,
         other_elem |-> other_elem]

\* Geometry.__init__
Geometry == [points |-> None, point_table |-> <<>>, lines |-> None,
             mesh_id |-> None, name |-> None, regions |-> <<>>,
             other_elem |-> <<>>]

Row(idx, x, y, note) ==
  [Index |-> idx, IDlabel |-> PointLabel(idx + 1), Xco |-> x, Yco |-> y, Note |-> note]

\* point_table[["X-co", "Y-co"]].to_numpy()
to_numpy(table) == [i \in 1..Len(table) |-> <<table[i].Xco, table[i].Yco>>]

\* A call's outcome: the object as the call leaves it, and the exception raised
Ok(g) == [self |-> g, exc |-> ""]

Raise(g, e) == [self |-> g, exc |-> e]

\* dict[key] = value on an insertion-ordered dict
SetItem(d, key, value) ==
  IF \E i \in 1..Len(d) : d[i][1] = key
  THEN [i \in 1..Len(d) |-> IF d[i][1] = key THEN <<key, value>> ELSE d[i]]
  ELSE Append(d, <<key, value>>)

\* A coordinate argument: a list of rows, or a numpy array of shape (n, 2)
IsShapeN2(pts) ==
  IF pts.isarray THEN \A i \in 1..Len(pts.rows) : Len(pts.rows[i]) = 2
  ELSE Len(pts.rows) > 0 /\ \A i \in 1..Len(pts.rows) : Len(pts.rows[i]) = 2

\* Geometry.addPoints
addPoints(g, pts, notes) ==
  IF ~IsShapeN2(pts) THEN Raise(g, "ValueError")
  ELSE LET start_idx == Len(g.point_table)
           n == Len(pts.rows)
           note == IF notes # None /\ Len(notes[1]) > 0 THEN notes[1]
                   ELSE [i \in 1..n |-> ""]
       IN IF Len(note) # n THEN Raise(g, "ValueError")
          ELSE LET new_df == [i \in 1..n |->
                                Row(start_idx + i - 1, pts.rows[i][1], pts.rows[i][2], note[i])]
                   table == g.point_table \o new_df
               IN Ok([g EXCEPT !.point_table = table, !.points = Some(to_numpy(table))])

\* arr = np.array(new_lines, dtype=int) has shape (n, 2)
IsPairList(new_lines) ==
  Len(new_lines) > 0 /\ \A i \in 1..Len(new_lines) : Len(new_lines[i]) = 2

\* np.any(arr > len(self.points))
AnyAbove(arr, n) == \E i \in 1..Len(arr) : \E j \in 1..2 : arr[i][j] > n

\* addLines storing each pair as soon as it has passed its own check
addLines_partial(g, new_lines) ==
  IF ~IsPairList(new_lines) THEN Raise(g, "ValueError")
  ELSE IF g.points = None THEN Raise(g, "TypeError")
  ELSE LET n == Len(g.points[1])
           bad == {i \in 1..Len(new_lines) : new_lines[i][1] > n \/ new_lines[i][2] > n}
           stop == IF bad = {} THEN Len(new_lines) + 1
                   ELSE CHOOSE i \in bad : \A j \in bad : i <= j
           arr == [i \in 1..(stop - 1) |-> <<new_lines[i][1] - 1, new_lines[i][2] - 1>>]
           old == IF g.lines = None THEN <<>> ELSE g.lines[1]
           g1 == IF g.lines = None /\ stop = 1 THEN g ELSE [g EXCEPT !.lines = Some(old \o arr)]
       IN IF bad = {} THEN Ok(g1) ELSE Raise(g1, "ValueError")

\* addLines skipping the pairs that are already stored
addLines_dedup(g, new_lines) ==
  IF ~IsPairList(new_lines) THEN Raise(g, "ValueError")
  ELSE IF g.points = None THEN Raise(g, "TypeError")
  ELSE IF AnyAbove(new_lines, Len(g.points[1])) THEN Raise(g, "ValueError")
  ELSE LET arr == [i \in 1..Len(new_lines) |-> <<new_lines[i][1] - 1, new_lines[i][2] - 1>>]
           old == IF g.lines = None THEN <<>> ELSE g.lines[1]
           fresh == SelectSeq(arr, LAMBDA l : l \notin Range(old))
       IN Ok([g EXCEPT !.lines = Some(old \o fresh)])

\* Geometry.addLines
addLines(g, new_lines) ==
  IF ~IsPairList(new_lines) THEN Raise(g, "ValueError")
  ELSE IF g.points = None THEN Raise(g, "TypeError")
  ELSE IF AnyAbove(new_lines, Len(g.points[1])) THEN Raise(g, "ValueError")
  ELSE LET arr == [i \in 1..Len(new_lines) |-> <<new_lines[i][1] - 1, new_lines[i][2] - 1>>]
       IN IF g.lines = None THEN Ok([g EXCEPT !.lines = Some(arr)])
          ELSE Ok([g EXCEPT !.lines = Some(g.lines[1] \o arr)])

\* Geometry.addRegions
addRegions(g, pt_ids) ==
  LET new_id == Len(g.regions) + 1
      new_reg == <<pt_ids, <<>>>>
  IN Ok([g EXCEPT !.regions = SetItem(g.regions, RegionLabel(new_id), new_reg)])

\* createRegion closing the cycle on point 1 instead of the first new point
createRegion_wrap1(g, pts) ==
  IF g.points = None THEN Raise(g, "TypeError")
  ELSE LET n_pts_ini == Len(g.points[1])
           r1 == addPoints(g, pts, None)
           k == Len(pts.rows)
           new_lines == [x \in 1..k |->
                           IF x = k THEN <<x + n_pts_ini, 1>>
                           ELSE <<x + n_pts_ini, x + n_pts_ini + 1>>]
           r2 == addLines(r1.self, new_lines)
           new_region == [x \in 1..k |-> x + n_pts_ini]
       IN IF r1.exc # "" THEN r1
          ELSE IF k = 0 THEN Raise(r1.self, "IndexError")
          ELSE IF r2.exc # "" THEN r2
          ELSE addRegions(r2.self, new_region)

\* Geometry.createRegion
createRegion(g, pts) ==
  IF g.points = None THEN Raise(g, "TypeError")
  ELSE LET n_pts_ini == Len(g.points[1])
           r1 == addPoints(g, pts, None)
           k == Len(pts.rows)
           new_lines == [x \in 1..k |->
                           IF x = k THEN <<x + n_pts_ini, n_pts_ini + 1>>
                           ELSE <<x + n_pts_ini, x + n_pts_ini + 1>>]
           r2 == addLines(r1.self, new_lines)
           new_region == [x \in 1..k |-> x + n_pts_ini]
       IN IF r1.exc # "" THEN r1
          ELSE IF k = 0 THEN Raise(r1.self, "IndexError")
          ELSE IF r2.exc # "" THEN r2
          ELSE addRegions(r2.self, new_region)

\* delete taking the lines and regions flags as passed
delete_asked(g, points_, lines_, regions_) ==
  LET g1 == IF points_ THEN [g EXCEPT !.points = None, !.point_table = <<>>] ELSE g
      g2 == IF regions_ THEN [g1 EXCEPT !.regions = <<>>] ELSE g1
      g3 == IF lines_ THEN [g2 EXCEPT !.lines = None] ELSE g2
  IN Ok(g3)

\* Geometry.delete
delete(g, points_, lines_, regions_) ==
  LET regions1 == IF points_ THEN TRUE ELSE regions_
      lines1 == IF points_ THEN TRUE ELSE lines_
      g1 == IF points_ THEN [g EXCEPT !.points = None, !.point_table = <<>>] ELSE g
      g2 == IF regions1 THEN [g1 EXCEPT !.regions = <<>>] ELSE g1
      g3 == IF lines1 THEN [g2 EXCEPT !.lines = None] ELSE g2
  IN Ok(g3)

(***************************************************************************)
(* XML: an element is a tag, an attribute dict (a set of <<name, value>>   *)
(* pairs), a nullable text and a sequence of child elements.  The element  *)
(* handed to read / __write__ is given by the sequence of its children.    *)
(***************************************************************************)
Element(tag, attrib, text, children) ==
  [tag |-> tag, attrib |-> attrib, text |-> text, children |-> children]

\* element.attrib[key]
Attr(e, key) == (CHOOSE p \in e.attrib : p[1] = key)[2]

\* a local variable of read: unbound, or bound to a value
Unbound == <<>>

Bound(v) == <<v>>

\* read, tag "Points": one table row per Point child, in document order
ReadPoints(g, property_) ==
  LET point_data == [i \in 1..Len(property_.children) |->
                       LET point == property_.children[i]
                           idx == int(Attr(point, "ID")) - 1
                       IN Row(idx, float(Attr(point, "X")), float(Attr(point, "Y")), "")]
  IN Ok([g EXCEPT !.point_table = point_data, !.points = Some(to_numpy(point_data))])

\* read, tag "Lines": a table of Len rows of -1, then each Line child fills its slot
RECURSIVE FillLines(_, _, _)
FillLines(arr, children, i) ==
  IF i > Len(children) THEN [arr |-> arr, exc |-> ""]
  ELSE LET line == children[i]
           k == int(line.children[1].text[1]) - 1
           slot == IF k < 0 THEN k + Len(arr) + 1 ELSE k + 1
           row == <<int(line.children[2].text[1]) - 1, int(line.children[3].text[1]) - 1>>
       IN IF slot < 1 \/ slot > Len(arr) THEN [arr |-> arr, exc |-> "IndexError"]
          ELSE FillLines([arr EXCEPT ![slot] = row], children, i + 1)

ReadLines(g, property_) ==
  LET n == int(Attr(property_, "Len"))
      r == FillLines([i \in 1..n |-> <<-1, -1>>], property_.children, 1)
  IN [self |-> [g EXCEPT !.lines = Some(r.arr)], exc |-> r.exc]

\* read, tag "Regions": the loop over the children of one Region
RECURSIVE ScanRegion(_, _, _)
ScanRegion(loc, children, i) ==
  IF i > Len(children) THEN loc
  ELSE LET x == children[i]
           loc1 == [loc EXCEPT !.other_attrib = Bound(<<>>)]
           loc2 == IF x.tag = "ID" THEN [loc1 EXCEPT !.id_ = Bound(x.text)] ELSE loc1
           loc3 == IF x.tag = "PointIDs"
                   THEN [loc2 EXCEPT !.pts =
                           Bound(LET parts == split(x.text[1], ",")
                                 IN [j \in 1..Len(parts) |-> int(parts[j])])]
                   ELSE [loc2 EXCEPT !.other_attrib = Bound(Append(loc2.other_attrib[1], x))]
       IN ScanRegion(loc3, children, i + 1)

RECURSIVE ReadRegions(_, _, _, _)
ReadRegions(g, loc, regs, i) ==
  IF i > Len(regs) THEN [self |-> g, exc |-> "", loc |-> loc]
  ELSE LET loc1 == ScanRegion(loc, regs[i].children, 1)
       IN IF loc1.id_ = Unbound \/ loc1.pts = Unbound \/ loc1.other_attrib = Unbound
          THEN [self |-> g, exc |-> "UnboundLocalError", loc |-> loc1]
          ELSE ReadRegions(
                 [g EXCEPT !.regions = SetItem(g.regions, RegionsLabel(loc1.id_[1]),
                                               <<loc1.pts[1], loc1.other_attrib[1]>>)],
                 loc1, regs, i + 1)

\* Geometry.read: one pass over the children of the element
RECURSIVE ReadFrom(_, _, _, _)
ReadFrom(g, loc, element, i) ==
  IF i > Len(element) THEN Ok(g)
  ELSE LET property_ == element[i]
       IN IF property_.tag = "Points"
          THEN ReadFrom(ReadPoints(g, property_).self, loc, element, i + 1)
          ELSE IF property_.tag = "Lines"
          THEN LET r == ReadLines(g, property_)
               IN IF r.exc # "" THEN r ELSE ReadFrom(r.self, loc, element, i + 1)
          ELSE IF property_.tag = "Regions"
          THEN LET r == ReadRegions(g, loc, property_.children, 1)
               IN IF r.exc # "" THEN Raise(r.self, r.exc)
                  ELSE ReadFrom(r.self, r.loc, element, i + 1)
          ELSE IF property_.tag = "MeshId"
          THEN ReadFrom([g EXCEPT !.mesh_id = property_.text], loc, element, i + 1)
          ELSE IF property_.tag = "ResultGraphs"
          THEN ReadFrom(g, loc, element, i + 1)
          ELSE IF property_.tag = "Name"
          THEN ReadFrom([g EXCEPT !.name = property_.text], loc, element, i + 1)
          ELSE ReadFrom([g EXCEPT !.other_elem = Append(g.other_elem, property_)],
                        loc, element, i + 1)

read(g, element) ==
  ReadFrom(g, [id_ |-> Unbound, pts |-> Unbound, other_attrib |-> Unbound], element, 1)

\* Geometry.__write__, the Points element
WritePoints(g) ==
  Element("Points", {<<"Len", str(Len(g.points[1]))>>}, None,
          [i \in 1..Len(g.points[1]) |->
             Element("Point",
                     {<<"ID", str(i)>>, <<"X", str_float(g.points[1][i][1])>>,
                      <<"Y", str_float(g.points[1][i][2])>>},
                     None, <<>>)])

\* Geometry.__write__, the Lines element
WriteLines(g) ==
  Element("Lines", {<<"Len", str(Len(g.lines[1]))>>}, None,
          [i \in 1..Len(g.lines[1]) |->
             Element("Line", {}, None,
                     <<Element("ID", {}, Some(str(i)), <<>>),
                       Element("PointID1", {}, Some(str(g.lines[1][i][1] + 1)), <<>>),
                       Element("PointID2", {}, Some(str(g.lines[1][i][2] + 1)), <<>>)>>)])

\* Geometry.__write__, the Regions element
WriteRegions(g) ==
  Element("Regions", {<<"Len", str(Len(g.regions))>>}, None,
          [i \in 1..Len(g.regions) |->
             LET id_ == g.regions[i][1]
                 region == g.regions[i][2]
                 parts == split(id_, "-")
             IN Element("Region", {}, None,
                        <<Element("ID", {}, Some(parts[Len(parts)]), <<>>),
                          Element("PointIDs", {},
                                  Some(join(",", [j \in 1..Len(region[1]) |-> str(region[1][j])])),
                                  <<>>)>>
                        \o [j \in 1..Len(region[2]) |->
                              Element(region[2][j].tag, region[2][j].attrib,
                                      region[2][j].text, <<>>)])])

\* Geometry.__write__: the children appended to et, and the exception raised
write(g) ==
  IF g.points = None THEN [et |-> <<>>, exc |-> "TypeError"]
  ELSE IF g.lines = None THEN [et |-> <<WritePoints(g)>>, exc |-> "TypeError"]
  ELSE [et |-> <<WritePoints(g), WriteLines(g), WriteRegions(g),
                 Element("MeshId", {}, g.mesh_id, <<>>),
                 Element("Name", {}, g.name, <<>>)>> \o g.other_elem,
        exc |-> ""]

(***************************************************************************)
(* Arguments of the calls.                                                 *)
(***************************************************************************)
List(rows) == [isarray |-> FALSE, rows |-> rows]

Array(rows) == [isarray |-> TRUE, rows |-> rows]

Triangle == <<<<0, 0>>, <<10, 0>>, <<5, 15>>>>

\* createRegion is called with coordinates
PtsInputs == { List(Triangle), List(<<<<0, 0, 0>>>>), Array(<<>>) }

\* addPoints is called with coordinates and optional notes
PtsNotesInputs ==
  { <<List(<<<<25, 5>>>>), Some(<<"crest">>)>>, <<List(Triangle), None>>,
    <<List(Triangle), Some(<<"crest">>)>>, <<List(<<<<0, 0, 0>>>>), None>> }

LinesInputs ==
  { <<<<1, 1>>>>, <<<<1, 1>>, <<0, 1>>>>, <<<<1, 1>>, <<1, 9>>>>, <<<<1, 2, 3>>>> }

RegionInputs == { <<1, 7>> }

(***************************************************************************)
(* XML subtrees in the persisted schema, built from a few parameters.      *)
(***************************************************************************)
PointXml(id, style) ==
  Element("Point",
          {<<"ID", str(id)>>,
           <<"X", IF style = "float" THEN str(id) \o <<".", "5">> ELSE str(id)>>,
           <<"Y", IF style = "float" THEN <<"0", ".", "0">> ELSE <<"0">>>>},
          None, <<>>)

PointsXml(pids, style) ==
  Element("Points", {<<"Len", str(Len(pids))>>}, None,
          [i \in 1..Len(pids) |-> PointXml(pids[i], style)])

LineXml(l) ==
  Element("Line", {}, None,
          <<Element("ID", {}, Some(str(l[1])), <<>>),
            Element("PointID1", {}, Some(str(l[2])), <<>>),
            Element("PointID2", {}, Some(str(l[3])), <<>>)>>)

LinesXml(ls) ==
  Element("Lines", {<<"Len", str(Len(ls))>>}, None, [i \in 1..Len(ls) |-> LineXml(ls[i])])

IdXml(n) == Element("ID", {}, Some(str(n)), <<>>)

PointIDsXml(ids) ==
  Element("PointIDs", {}, Some(join(",", [i \in 1..Len(ids) |-> str(ids[i])])), <<>>)

MaterialXml == Element("Material", {}, Some(<<"2">>), <<>>)

HatchXml == Element("Hatch", {<<"Style", <<"x">>>>}, None, <<>>)

RegionsXml(rs) ==
  Element("Regions", {<<"Len", str(Len(rs))>>}, None,
          [i \in 1..Len(rs) |-> Element("Region", {}, None, rs[i])])

MeshIdXml == Element("MeshId", {}, Some(<<"1">>), <<>>)

NameXml == Element("Name", {}, Some(<<"D", "i", "k", "e">>), <<>>)

ResultGraphsXml == Element("ResultGraphs", {}, None, <<>>)

ViewXml == Element("View", {<<"Zoom", <<"1">>>>}, None, <<>>)

Doc(pids, style, rs) ==
  <<PointsXml(pids, style), LinesXml(<<<<1, 1, 2>>>>), RegionsXml(rs), MeshIdXml, NameXml,
    ResultGraphsXml, ViewXml>>

XmlDocs ==
  { Doc(<<1, 2>>, "float", <<<<IdXml(2), PointIDsXml(<<1, 2>>), HatchXml>>>>),
    Doc(<<2, 1>>, "float", <<<<IdXml(1), PointIDsXml(<<1, 2>>)>>>>),
    Doc(<<1, 2>>, "int", <<<<IdXml(1), PointIDsXml(<<1, 2>>)>>>>),
    Doc(<<1, 2>>, "float", <<<<IdXml(1), PointIDsXml(<<1, 2>>), MaterialXml, HatchXml>>>>) }

(***************************************************************************)
(* The calls a caller makes on the object.                                 *)
(***************************************************************************)
NPoints(g) == IF g.points = None THEN 0 ELSE Len(g.points[1])

NLines(g) == IF g.lines = None THEN 0 ELSE Len(g.lines[1])

\* how many points, lines and regions the object holds when a call starts
Sizes == [points |-> NPoints(self), lines |-> NLines(self), regions |-> Len(regions)]

Store(r, opname, args, x) ==
  /\ points' = r.self.points
  /\ point_table' = r.self.point_table
  /\ lines' = r.self.lines
  /\ mesh_id' = r.self.mesh_id
  /\ name' = r.self.name
  /\ regions' = r.self.regions
  /\ other_elem' = r.self.other_elem
  /\ op' = [name |-> opname, args |-> args, exc |-> r.exc, before |-> Sizes]
  /\ xml_in' = x
  /\ xml_out' = None
  /\ copy' = None
  /\ UNCHANGED cover

Commit(r, opname, args) == Store(r, opname, args, None)

AddPoints ==
  \E a \in PtsNotesInputs :
    /\ Len(point_table) + Len(a[1].rows) <= MaxPoints
    /\ Commit(addPoints(self, a[1], a[2]), "addPoints", a)

AddLines ==
  \E new_lines \in LinesInputs :
    /\ NLines(self) + Len(new_lines) <= MaxLines
    /\ Commit(addLines(self, new_lines), "addLines", <<new_lines>>)

AddRegions ==
  \E pt_ids \in RegionInputs :
    /\ Len(regions) < MaxRegions
    /\ Commit(addRegions(self, pt_ids), "addRegions", <<pt_ids>>)

CreateRegion ==
  \E pts \in PtsInputs :
    /\ Len(point_table) + Len(pts.rows) <= MaxPoints
    /\ NLines(self) + Len(pts.rows) <= MaxLines
    /\ Len(regions) < MaxRegions
    /\ Commit(createRegion(self, pts), "createRegion", <<pts>>)

Delete ==
  \E p \in BOOLEAN, l \in BOOLEAN, r \in BOOLEAN :
    Commit(delete(self, p, l, r), "delete", <<p, l, r>>)

\* a new Geometry is filled from a persisted subtree
Read ==
  \E element \in XmlDocs :
    /\ op.name = "__init__"
    /\ Store(read(self, element), "read", <<element>>, Some(element))

\* the object is written to the children of an empty element
Write ==
  LET w == write(self)
  IN /\ xml_out' = Some(w.et)
     /\ op' = [name |-> "__write__", args |-> <<>>, exc |-> w.exc, before |-> Sizes]
     /\ copy' = None
     /\ UNCHANGED <<points, point_table, lines, mesh_id, name, regions, other_elem, xml_in,
                    cover>>

\* what was written is read back into a second, new Geometry
ReadCopy ==
  /\ op.name = "__write__"
  /\ op.exc = ""
  /\ copy' = Some(read(Geometry, xml_out[1]).self)
  /\ op' = [name |-> "read_copy", args |-> <<>>, exc |-> read(Geometry, xml_out[1]).exc,
            before |-> Sizes]
  /\ UNCHANGED <<points, point_table, lines, mesh_id, name, regions, other_elem,
                 xml_in, xml_out, cover>>

(***************************************************************************)
(* The offset-layer solver, calc_cover_layer_points.  Lengths are counted  *)
(* in eighths (0.25 is 2, 1.0 is 8).  The Shapely calls are modelled on    *)
(* polylines made of horizontal and vertical segments, with a horizontal   *)
(* trim line.  What differs between versions of Shapely and GEOS is a      *)
(* choice: the direction of a right-hand offset, whether collinear         *)
(* vertices are kept, the order of the parts of a MultiPoint, and the      *)
(* exception type of LineString.                                           *)
(***************************************************************************)
Sign(n) == IF n > 0 THEN 1 ELSE IF n < 0 THEN -1 ELSE 0

Dir(a, b) == <<Sign(b[1] - a[1]), Sign(b[2] - a[2])>>

\* the unit normal on the right-hand side of a direction
RightOf(d) == <<d[2], -d[1]>>

Reverse(s) == [i \in 1..Len(s) |-> s[Len(s) + 1 - i]]

Min(a, b) == IF a < b THEN a ELSE b

Max(a, b) == IF a > b THEN a ELSE b

\* the mitred (join_style=2) offset at distance t on the right-hand side
OffsetCoords(coords, t) ==
  [i \in 1..Len(coords) |->
     LET n == Len(coords)
         din == IF i > 1 THEN Dir(coords[i - 1], coords[i]) ELSE Dir(coords[1], coords[2])
         dout == IF i < n THEN Dir(coords[i], coords[i + 1]) ELSE din
         nin == RightOf(din)
         nout == RightOf(dout)
     IN IF din = dout
        THEN <<coords[i][1] + t * nin[1], coords[i][2] + t * nin[2]>>
        ELSE <<coords[i][1] + t * (nin[1] + nout[1]), coords[i][2] + t * (nin[2] + nout[2])>>]

\* a line without its interior vertices that lie on a straight run
RECURSIVE DropCollinear(_)
DropCollinear(c) ==
  IF Len(c) < 3 THEN c
  ELSE IF Dir(c[1], c[2]) = Dir(c[2], c[3])
       THEN DropCollinear(<<c[1]>> \o SubSeq(c, 3, Len(c)))
       ELSE <<c[1]>> \o DropCollinear(Tail(c))

\* line.parallel_offset(-thickness, side='left', join_style=2)
parallel_offset(coords, thickness, build) ==
  LET raw == OffsetCoords(coords, thickness)
      kept == IF build.simplified THEN DropCollinear(raw) ELSE raw
  IN IF build.reversed THEN Reverse(kept) ELSE kept

\* the points of a set in ascending order of x
RECURSIVE AscendingX(_)
AscendingX(S) ==
  IF S = {} THEN <<>>
  ELSE LET p == CHOOSE q \in S : \A r \in S : q[1] < r[1] \/ (q[1] = r[1] /\ q[2] <= r[2])
       IN <<p>> \o AscendingX(S \ {p})

\* offset_line.intersection(trim_line), trim_line horizontal
intersection(offset_line, trim_line, build) ==
  LET y0 == trim_line[1][2]
      xlo == Min(trim_line[1][1], trim_line[2][1])
      xhi == Max(trim_line[1][1], trim_line[2][1])
      I == 1..(Len(offset_line) - 1)
      A(i) == offset_line[i]
      B(i) == offset_line[i + 1]
      lo(i) == Max(Min(A(i)[1], B(i)[1]), xlo)
      hi(i) == Min(Max(A(i)[1], B(i)[1]), xhi)
      onLine(i) == A(i)[2] = y0 /\ B(i)[2] = y0
      segs == {<<lo(i), hi(i)>> : i \in {j \in I : onLine(j) /\ lo(j) < hi(j)}}
      touch == {<<lo(i), y0>> : i \in {j \in I : onLine(j) /\ lo(j) = hi(j)}}
      cross == {<<A(i)[1], y0>> :
                  i \in {j \in I : /\ A(j)[1] = B(j)[1]
                                    /\ Min(A(j)[2], B(j)[2]) <= y0
                                    /\ y0 <= Max(A(j)[2], B(j)[2])
                                    /\ xlo <= A(j)[1] /\ A(j)[1] <= xhi}}
      pts == {p \in touch \cup cross : \A sg \in segs : p[1] < sg[1] \/ p[1] > sg[2]}
      asc == AscendingX(pts)
  IN [geom_type |-> IF segs # {}
                    THEN (IF pts # {} THEN "GeometryCollection"
                          ELSE IF Cardinality(segs) = 1 THEN "LineString"
                          ELSE "MultiLineString")
                    ELSE IF Cardinality(pts) = 1 THEN "Point"
                    ELSE IF pts # {} THEN "MultiPoint"
                    ELSE "GeometryCollection",
      is_empty |-> segs = {} /\ pts = {},
      geoms |-> IF build.descending THEN Reverse(asc) ELSE asc]

\* sorted(geoms, key=lambda p: p.x)
RECURSIVE sorted(_)
sorted(geoms) ==
  IF Len(geoms) = 0 THEN <<>>
  ELSE LET k == CHOOSE i \in 1..Len(geoms) :
                  /\ \A j \in 1..Len(geoms) : geoms[i][1] <= geoms[j][1]
                  /\ \A j \in 1..(i - 1) : geoms[j][1] > geoms[i][1]
       IN <<geoms[k]>> \o sorted(SubSeq(geoms, 1, k - 1) \o SubSeq(geoms, k + 1, Len(geoms)))

Returned(offset_line, inter, cover_pts) ==
  [exc |-> "", msg |-> "", offset_line |-> offset_line, intersection |-> inter,
   cover_pts |-> Some(cover_pts)]

Raised(offset_line, inter, e, msg) ==
  [exc |-> e, msg |-> msg, offset_line |-> offset_line, intersection |-> inter,
   cover_pts |-> None]

\* calc_cover_layer_points, handing back the untrimmed offset when nothing meets
calc_cover_layer_points_silent(points_, start_id, end_id, thickness, build) ==
  LET top_section == SubSeq(points_, start_id, end_id)
      offset_line == parallel_offset(top_section, thickness, build)
      inter == intersection(offset_line, <<top_section[1], top_section[Len(top_section)]>>, build)
  IN Returned(offset_line, inter, offset_line)

\* calc_cover_layer_points
calc_cover_layer_points(points_, start_id, end_id, thickness, build) ==
  LET top_section == SubSeq(points_, start_id, end_id)
      offset_line == parallel_offset(top_section, thickness, build)
      p_start == top_section[1]
      p_end == top_section[Len(top_section)]
      inter == intersection(offset_line, <<p_start, p_end>>, build)
      inter_pts == IF inter.geom_type = "MultiPoint" THEN sorted(inter.geoms) ELSE inter.geoms
  IN IF inter.is_empty
     THEN Raised(offset_line, inter, "ValueError", "No intersection found between offset and trim line.")
     ELSE IF inter.geom_type \notin {"MultiPoint", "Point"}
     THEN Raised(offset_line, inter, "ValueError", "Unexpected intersection geometry.")
     ELSE IF Len(inter_pts) = 1
     THEN Raised(offset_line, inter,
                 IF build.shapely2 THEN "GEOSException" ELSE "ValueError", "LineString")
     ELSE Returned(offset_line, inter,
                   <<inter_pts[1]>> \o SubSeq(offset_line, 2, Len(offset_line) - 1)
                   \o <<inter_pts[Len(inter_pts)]>>)

\* the polylines handed to the solver: runs of 8 along x, of v along y
RECURSIVE Walk(_, _, _)
Walk(from, dirs, v) ==
  IF Len(dirs) = 0 THEN <<from>>
  ELSE LET d == dirs[1]
           to == IF d = "E" THEN <<from[1] + 8, from[2]>>
                 ELSE IF d = "W" THEN <<from[1] - 8, from[2]>>
                 ELSE IF d = "N" THEN <<from[1], from[2] + v>>
                 ELSE <<from[1], from[2] - v>>
       IN <<from>> \o Walk(to, Tail(dirs), v)

Count(dirs, d) == Cardinality({i \in 1..Len(dirs) : dirs[i] = d})

\* walks that never turn back on themselves and end level with their start
DirSeqs ==
  {dirs \in UNION {[1..n -> {"E", "N", "S", "W"}] : n \in 1..MaxSegs} :
     /\ Count(dirs, "E") # Count(dirs, "W")
     /\ Count(dirs, "N") = Count(dirs, "S")
     /\ \A i \in 1..(Len(dirs) - 1) :
          {dirs[i], dirs[i + 1]} \notin {{"N", "S"}, {"E", "W"}}}

Distinct(c) == \A i \in 1..(Len(c) - 1) : c[i] # c[i + 1]

Gap(lo1, hi1, lo2, hi2) == Max(0, Max(lo2 - hi1, lo1 - hi2))

\* the squared distance between two segments that run along the axes
SegDist2(a, b, c, d) ==
  LET gx == Gap(Min(a[1], b[1]), Max(a[1], b[1]), Min(c[1], d[1]), Max(c[1], d[1]))
      gy == Gap(Min(a[2], b[2]), Max(a[2], b[2]), Min(c[2], d[2]), Max(c[2], d[2]))
  IN gx * gx + gy * gy

\* the polylines whose offset is its mitred construction: the offset keeps
\* every segment and its direction, stays at the distance from the line
\* and does not meet itself
Offsettable(c, t) ==
  LET off == OffsetCoords(c, t)
      I == 1..(Len(c) - 1)
  IN /\ Cardinality(Range(c)) = Len(c)
     /\ Distinct(off)
     /\ \A i \in I : Dir(off[i], off[i + 1]) = Dir(c[i], c[i + 1])
     /\ \A i, j \in I : SegDist2(off[i], off[i + 1], c[j], c[j + 1]) >= t * t
     /\ \A i, j \in I : j > i + 1 => SegDist2(off[i], off[i + 1], off[j], off[j + 1]) > 0

Builds == [reversed : BOOLEAN, simplified : BOOLEAN, descending : BOOLEAN, shapely2 : BOOLEAN]

CoverInputs ==
  {a \in [dirs : DirSeqs, v : {2, 8}, thickness : {2, 3}] :
     Offsettable(Walk(<<0, 0>>, a.dirs, a.v), a.thickness)}

\* one call of the solver, a pure function, is observed in a behaviour
CalcCover ==
  /\ cover = None
  /\ \E a \in CoverInputs, build \in Builds :
    LET points_ == <<<<-8, 0>>>> \o Walk(<<0, 0>>, a.dirs, a.v)
        r == calc_cover_layer_points(points_, 2, Len(points_), a.thickness, build)
    IN /\ cover' = Some([top_section |-> Tail(points_), thickness |-> a.thickness,
                         build |-> build, exc |-> r.exc, msg |-> r.msg,
                         offset_line |-> r.offset_line, intersection |-> r.intersection,
                         cover_pts |-> r.cover_pts])
       /\ UNCHANGED <<points, point_table, lines, mesh_id, name, regions, other_elem,
                      xml_in, xml_out, copy, op>>

Init ==
  /\ points = Geometry.points
  /\ point_table = Geometry.point_table
  /\ lines = Geometry.lines
  /\ mesh_id = Geometry.mesh_id
  /\ name = Geometry.name
  /\ regions = Geometry.regions
  /\ other_elem = Geometry.other_elem
  /\ xml_in = None
  /\ xml_out = None
  /\ copy = None
  /\ cover = None
  /\ op = [name |-> "__init__", args |-> <<>>, exc |-> "",
           before |-> [points |-> 0, lines |-> 0, regions |-> 0]]

NextOps ==
  \/ AddPoints
  \/ AddLines
  \/ AddRegions
  \/ CreateRegion
  \/ Delete

Next ==
  \/ Read
  \/ Write
  \/ ReadCopy
  \/ AddPoints
  \/ AddLines
  \/ AddRegions
  \/ CreateRegion
  \/ Delete

\* every call, the XML reader and writer included
Spec == Init /\ [][Next]_vars

\* the mutation calls alone, from an empty model
SpecOps == Init /\ [][NextOps]_vars

\* the calls of the offset-layer solver
SpecCover == Init /\ [][CalcCover]_vars

(***************************************************************************)
(* Properties.                                                             *)
(***************************************************************************)
\* dict equality ignores insertion order
SameDict(d, e) == Len(d) = Len(e) /\ Range(d) = Range(e)

SameModel(a, b) ==
  /\ a.points = b.points
  /\ a.point_table = b.point_table
  /\ a.lines = b.lines
  /\ SameDict(a.regions, b.regions)
  /\ a.mesh_id = b.mesh_id
  /\ a.name = b.name
  /\ a.other_elem = b.other_elem

\* C1: reading back what __write__ produced, into a new Geometry, gives a
\* model equal to the written one field for field (points, lines, region
\* keys with their point ids and extra fields, mesh id, name, foreign
\* elements).
C1_ModelRoundTrip ==
  op.name = "read_copy" => (op.exc = "" /\ SameModel(copy[1], self))

WithoutResultGraphs(element) == SelectSeq(element, LAMBDA e : e.tag # "ResultGraphs")

\* C2: writing a model that was just read from a subtree x gives x back,
\* tag for tag and attribute for attribute, less the ResultGraphs element.
C2_XmlRoundTrip ==
  (op.name = "__write__" /\ xml_in # None)
    => (op.exc = "" /\ xml_out[1] = WithoutResultGraphs(xml_in[1]))

\* C3: every stored line has both endpoints in 0..N-1, N the number of
\* points in the table, after any sequence of mutation calls.
C3_LineIndexIntegrity ==
  lines # None =>
    \A i \in 1..Len(lines[1]) : \A j \in 1..2 :
      lines[1][i][j] \in 0..(Len(point_table) - 1)

\* some component of some pair is not the identifier of one of n points
HasBadId(pairs, n) == \E i \in 1..Len(pairs) : \E j \in 1..2 : pairs[i][j] \notin 1..n

\* C4: addLines called with a pair that has a component outside 1..N fails
\* and leaves the line set as it was.
C4_AddLinesValidates ==
  [][(op'.name = "addLines" /\ IsPairList(op'.args[1])
        /\ HasBadId(op'.args[1], NPoints(self)))
       => (op'.exc # "" /\ lines' = lines)]_vars

\* C5: after delete(points=true, lines, regions), whatever the other two
\* flags, there are no points, no lines and no regions.
C5_DeleteCascade ==
  (op.name = "delete" /\ op.args[1])
    => (point_table = <<>> /\ points = None /\ lines = None /\ regions = <<>>)

C5_Witness ==
  /\ op.name = "delete"
  /\ op.args = <<TRUE, FALSE, FALSE>>
  /\ op.before.points > 0 /\ op.before.lines > 0 /\ op.before.regions > 0
  /\ point_table = <<>> /\ lines = None /\ regions = <<>>

\* C6: createRegion with k >= 3 coordinate pairs on a model holding N >= 1
\* points appends k points N+1..N+k in input order, k lines N+i -> N+i+1 with
\* the last one back to N+1, and one region over N+1..N+k; what was there
\* before is unchanged.
C6_CreateRegion ==
  [][(op'.name = "createRegion" /\ ~op'.args[1].isarray
        /\ IsShapeN2(op'.args[1]) /\ Len(op'.args[1].rows) >= 3
        /\ NPoints(self) >= 1)
       => LET rows == op'.args[1].rows
              k == Len(rows)
              N == NPoints(self)
              L == NLines(self)
              R == Len(regions)
          IN /\ op'.exc = ""
             /\ Len(point_table') = N + k
             /\ SubSeq(point_table', 1, N) = point_table
             /\ \A i \in 1..k :
                  /\ point_table'[N + i].Index = N + i - 1
                  /\ point_table'[N + i].IDlabel = PointLabel(N + i)
                  /\ <<point_table'[N + i].Xco, point_table'[N + i].Yco>> = rows[i]
             /\ points' = Some(points[1] \o rows)
             /\ lines' # None
             /\ Len(lines'[1]) = L + k
             /\ \A i \in 1..L : lines'[1][i] = lines[1][i]
             /\ \A i \in 1..k :
                  lines'[1][L + i] = <<N + i - 1, IF i = k THEN N ELSE N + i>>
             /\ Len(regions') = R + 1
             /\ SubSeq(regions', 1, R) = regions
             /\ regions'[R + 1][2] = <<[i \in 1..k |-> N + i], <<>>>>]_vars

C6_Witness ==
  /\ op.name = "createRegion"
  /\ op.exc = ""
  /\ Len(op.args[1].rows) = 3
  /\ op.before.points >= 1 /\ op.before.lines >= 1 /\ op.before.regions >= 1
  /\ Len(point_table) = op.before.points + 3

\* C7: the Index column of the point table is 0..N-1 in storage order and
\* each label is "Point-{Index+1}", after a read and after any mutation.
C7_PointIndexInvariant ==
  \A i \in 1..Len(point_table) :
    point_table[i].Index = i - 1 /\ point_table[i].IDlabel = PointLabel(i)

\* C8: a call of addPoints, addLines or createRegion that raises leaves the
\* point table, the line set and the region map as they were.
C8_NoPartialMutation ==
  [][(op'.name \in {"addPoints", "addLines", "createRegion"} /\ op'.exc # "")
       => (point_table' = point_table /\ points' = points
           /\ lines' = lines /\ regions' = regions)]_vars

C8_Witness ==
  /\ op.name = "addLines"
  /\ op.exc = "ValueError"
  /\ op.args[1] = <<<<1, 1>>, <<1, 9>>>>
  /\ Len(point_table) >= 1
  /\ lines # None

\* C9: addRegions on a model with n regions succeeds, adds the region
\* "Region-{n+1}" with the given point ids and no extra fields, and keeps
\* every earlier region, even when the ids name no existing point.
C9_AddRegions ==
  [][op'.name = "addRegions"
       => LET n == Len(regions)
          IN /\ op'.exc = ""
             /\ Len(regions') = n + 1
             /\ SubSeq(regions', 1, n) = regions
             /\ regions'[n + 1] = <<RegionLabel(n + 1), <<op'.args[1], <<>>>>>>]_vars

C9_Witness ==
  /\ op.name = "addRegions"
  /\ Len(regions) = 2
  /\ regions[1][1] = RegionsLabel(Some(<<"2">>))
  /\ regions[2][1] = RegionLabel(2)
  /\ \E i \in 1..Len(op.args[1]) : op.args[1][i] > Len(point_table)

\* C10: a successful addLines appends every pair passed, duplicates of
\* stored lines included, after the lines already stored.
C10_AddLinesAppends ==
  [][(op'.name = "addLines" /\ op'.exc = "")
       => LET arr == op'.args[1]
              L == NLines(self)
          IN /\ lines' # None
             /\ Len(lines'[1]) = L + Len(arr)
             /\ \A i \in 1..L : lines'[1][i] = lines[1][i]
             /\ \A i \in 1..Len(arr) :
                  lines'[1][L + i] = <<arr[i][1] - 1, arr[i][2] - 1>>]_vars

C10_Witness ==
  /\ op.name = "addLines"
  /\ op.exc = ""
  /\ op.args[1] = <<<<1, 1>>>>
  /\ Len(lines[1]) >= 2
  /\ lines[1][Len(lines[1])] = <<0, 0>>
  /\ lines[1][Len(lines[1]) - 1] = <<0, 0>>

Straight(c) == \A i \in 1..Len(c) : c[i][2] = c[1][2]

Abs(n) == IF n < 0 THEN -n ELSE n

\* C11: the outcome of the solver follows the shape of the intersection of
\* the offset line with the trim segment: empty raises the geometry error
\* and nothing is returned; a single point is accepted and bounds the result
\* at both ends; several points give [p_min] + interior offset vertices +
\* [p_max]; any other shape raises the geometry error.
C11_SolverOutcome ==
  cover # None =>
    LET c == cover[1]
        I == c.intersection
        asc == AscendingX(Range(I.geoms))
        interior == SubSeq(c.offset_line, 2, Len(c.offset_line) - 1)
    IN /\ I.is_empty => (c.exc = "ValueError" /\ c.cover_pts = None)
       /\ (~I.is_empty /\ I.geom_type = "Point")
            => /\ c.exc = ""
               /\ c.cover_pts # None
               /\ c.cover_pts[1][1] = I.geoms[1]
               /\ c.cover_pts[1][Len(c.cover_pts[1])] = I.geoms[1]
       /\ I.geom_type = "MultiPoint"
            => /\ c.exc = ""
               /\ c.cover_pts = Some(<<asc[1]>> \o interior \o <<asc[Len(asc)]>>)
       /\ (~I.is_empty /\ I.geom_type \notin {"Point", "MultiPoint"})
            => (c.exc = "ValueError" /\ c.cover_pts = None)

\* C12 as stated: for a straight horizontal polyline and a positive
\* thickness t the solver returns a non-empty polyline, every point of it
\* at distance t in y from the original line, its first and last x those of
\* the original first and last points.
C12_StraightReturns ==
  (cover # None /\ Straight(cover[1].top_section))
    => LET c == cover[1]
           y0 == c.top_section[1][2]
       IN /\ c.exc = ""
          /\ c.cover_pts # None
          /\ Len(c.cover_pts[1]) > 0
          /\ \A i \in 1..Len(c.cover_pts[1]) : Abs(c.cover_pts[1][i][2] - y0) = c.thickness
          /\ c.cover_pts[1][1][1] = c.top_section[1][1]
          /\ c.cover_pts[1][Len(c.cover_pts[1])][1] = c.top_section[Len(c.top_section)][1]

\* C12: for a straight horizontal polyline and a positive thickness the
\* offset line is parallel to the trim segment, their intersection is empty,
\* and the solver raises the geometry error "No intersection found between
\* offset and trim line." and returns nothing.
C12_StraightRaises ==
  (cover # None /\ Straight(cover[1].top_section))
    => /\ cover[1].intersection.is_empty
       /\ cover[1].exc = "ValueError"
       /\ cover[1].msg = "No intersection found between offset and trim line."
       /\ cover[1].cover_pts = None

C12_Witness ==
  /\ cover # None
  /\ cover[1].top_section = <<<<0, 0>>, <<8, 0>>, <<16, 0>>>>
  /\ cover[1].thickness = 2
  /\ cover[1].offset_line = <<<<0, -2>>, <<8, -2>>, <<16, -2>>>>
  /\ cover[1].exc = "ValueError"

\* C13: after a read, for every Point child with attribute ID = i the
\* coordinates stored at position i-1 of the points are that child's X and
\* Y, in whatever order the Point children stand in the element.
C13_ReadPointsById ==
  (op.name = "read" /\ op.exc = "")
    => \A property_ \in Range(xml_in[1]) :
         property_.tag = "Points"
           => \A k \in 1..Len(property_.children) :
                LET point == property_.children[k]
                    i == int(Attr(point, "ID"))
                IN /\ points # None
                   /\ i \in 1..Len(points[1])
                   /\ points[1][i] = <<float(Attr(point, "X")), float(Attr(point, "Y"))>>

\* C14: after a read, every Region element gave an entry of the region map
\* whose label ends with the text of the ID child, whose point ids are the
\* integers of the PointIDs child, and whose extra fields are all the other
\* children in document order, the ID and PointIDs children not among them.
C14_RegionChildren ==
  (op.name = "read" /\ op.exc = "")
    => \A property_ \in Range(xml_in[1]) :
         property_.tag = "Regions"
           => \A k \in 1..Len(property_.children) :
                LET ch == property_.children[k].children
                    ids == SelectSeq(ch, LAMBDA x : x.tag = "ID")
                    pids == SelectSeq(ch, LAMBDA x : x.tag = "PointIDs")
                    rest == SelectSeq(ch, LAMBDA x : x.tag \notin {"ID", "PointIDs"})
                    parts == split(pids[1].text[1], ",")
                IN \E e \in Range(regions) :
                     /\ LET label == split(e[1], "-") IN label[Len(label)] = ids[1].text[1]
                     /\ e[2][1] = [j \in 1..Len(parts) |-> int(parts[j])]
                     /\ e[2][2] = rest

\* C15: createRegion with k >= 3 coordinate pairs on a model without
\* points (new, or after delete(points=True)) raises nothing and leaves k
\* points numbered 1..k, the k lines of the cycle 1->2->...->k->1 and one
\* region with point ids 1..k.
C15_CreateRegionOnEmpty ==
  [][(/\ op'.name = "createRegion"
      /\ points = None /\ lines = None /\ regions = <<>>
      /\ IsShapeN2(op'.args[1])
      /\ Len(op'.args[1].rows) >= 3)
       => LET k == Len(op'.args[1].rows)
          IN /\ op'.exc = ""
             /\ Len(point_table') = k
             /\ \A i \in 1..k : point_table'[i].IDlabel = PointLabel(i)
             /\ lines' = Some([i \in 1..k |-> <<i - 1, i % k>>])
             /\ Len(regions') = 1
             /\ regions'[1][2][1] = [i \in 1..k |-> i]]_vars

\* C16: __write__ raises nothing in any reachable state, lines or points
\* absent included, and writes Points, Lines and Regions elements whose Len
\* is the number of points, lines and regions held (0 when absent).
C16_WriteTotal ==
  op.name = "__write__"
    => /\ op.exc = ""
       /\ xml_out # None
       /\ \E e \in Range(xml_out[1]) : e.tag = "Points" /\ Attr(e, "Len") = str(NPoints(self))
       /\ \E e \in Range(xml_out[1]) : e.tag = "Lines" /\ Attr(e, "Len") = str(NLines(self))
       /\ \E e \in Range(xml_out[1]) : e.tag = "Regions" /\ Attr(e, "Len") = str(Len(regions))
====
